---- MODULE Spec2Model ----
(***************************************************************************)
(* Model of the windowed extraction pipeline of                            *)
(* DataManager/collector/dataset/generator.py (class CMSDatasetV0 and its  *)
(* worker process CMSDatasetV0Process).                                    *)
(*                                                                         *)
(*   SpecGen  the date generator CMSDatasetV0.__gen_interval, run for the  *)
(*            current window and for the next window on the same inputs    *)
(*   Spec     CMSDatasetV0.extract, sequential and parallel, with the      *)
(*            worker processes it starts                                   *)
(*   SpecAgg  the aggregation loop of extract (lines 385-394), record by   *)
(*            record, on the merged record list it is handed               *)
(*   SpecSave CMSDatasetV0.save on the outcome of extract                  *)
(*   SpecCollector  CMSDatasetV0.get_data_collector on one day's listing   *)
(*   SpecES   ElasticSearchHttp.put of DataManager/agent/api.py            *)
(***************************************************************************)
EXTENDS Integers, Sequences, FiniteSets, TLC

VARIABLES
    \* the date generator
    gen_args,                  \* arguments of __gen_interval
    gen,                       \* the two generator objects, by next_week
    \* the world extract runs in
    args,                      \* arguments of extract
    fs,                        \* what liststatus answers for each day
    \* the controller: CMSDatasetV0.extract
    pc,                        \* where extract is
    err,                       \* the exception extract raised, "" if none
    day_i,                     \* the day the listing loops have reached
    tasks,                     \* every (full_path, process) made, in order
    all_tasks,                 \* the tasks not yet popped
    launched_processes,
    flushed,                   \* the list flush_queue is filling
    data,
    window_indexes,
    next_window_indexes,
    window,
    next_window,
    res_data,
    \* the channels
    task_data,
    task_window_indexes,
    task_next_window_indexes,
    \* the started CMSDatasetV0Process objects, by task
    proc,
    \* every liststatus and open request made, and those that failed
    io_log,
    \* the aggregation loop taken record by record
    agg_i,                     \* records of data the loop has gone through
    \* CMSDatasetV0.save
    save_pc,                   \* where save is
    save_i,                    \* entries of the mapping written so far
    sink,                      \* what was appended to the output file
    \* CMSDatasetV0.get_data_collector
    dc_listing,                \* what liststatus answers for the day: the
                               \* listed names, or a refusal
    dc_out,                    \* what the call ended with
    \* ElasticSearchHttp.put
    es_sent,                   \* the documents published, in order
    es_index,                  \* the documents the index holds, by id
    \* the SupportTable of extract and save
    support_tables,            \* whether one is made, the calls made on it
                               \* and the values held under 'features'
    \* CMSResourceManager.get
    rm_days,                   \* what liststatus answers, day by day
    rm                         \* where the generator is, what it yielded

genVars == <<gen_args, gen>>

worldVars == <<args, fs>>

ctlVars ==
    <<pc, err, day_i, tasks, all_tasks, launched_processes, flushed, data,
      window_indexes, next_window_indexes, window, next_window, res_data>>

chanVars == <<task_data, task_window_indexes, task_next_window_indexes>>

extVars == <<worldVars, ctlVars, chanVars, proc, io_log>>

aggVars == <<agg_i>>

saveVars == <<save_pc, save_i, sink>>

dcVars == <<dc_listing, dc_out>>

esVars == <<es_sent, es_index>>

stVars == <<support_tables>>

rmVars == <<rm_days, rm>>

auxVars == <<aggVars, saveVars, dcVars, esVars, stVars, rmVars>>

vars == <<genVars, extVars, auxVars>>

-----------------------------------------------------------------------------
(* Bounds of the model.                                                    *)

MaxWindow == 3

MaxNegWindow == 2

MaxStep == 2

\* the generator of a window that never ends is followed for this many yields
MaxYield == MaxWindow + 2

\* start dates next to a year end, a leap day, a non-leap February end and a
\* month end
StartDates ==
    { <<2019, 12, 30>>, <<2020, 2, 27>>, <<2021, 2, 27>>, <<2020, 1, 31>> }

-----------------------------------------------------------------------------
(* datetime.date arithmetic, as `date + timedelta` computes it: the date   *)
(* is turned into its proleptic Gregorian ordinal, the days are added and  *)
(* the ordinal is turned back into (year, month, day).                     *)

is_leap(y) == y % 4 = 0 /\ (y % 100 # 0 \/ y % 400 = 0)

DAYS_IN_MONTH == <<31, 28, 31, 30, 31, 30, 31, 31, 30, 31, 30, 31>>

DAYS_BEFORE_MONTH == <<0, 31, 59, 90, 120, 151, 181, 212, 243, 273, 304, 334>>

days_before_year(y) ==
    (y - 1) * 365 + ((y - 1) \div 4) - ((y - 1) \div 100) + ((y - 1) \div 400)

days_before_month(y, m) ==
    DAYS_BEFORE_MONTH[m] + (IF m > 2 /\ is_leap(y) THEN 1 ELSE 0)

ymd2ord(t) == days_before_year(t[1]) + days_before_month(t[1], t[2]) + t[3]

ord2ymd(ord) ==
    LET n0   == ord - 1
        n400 == n0 \div 146097
        n1r  == n0 % 146097
        n100 == n1r \div 36524
        n2r  == n1r % 36524
        n4   == n2r \div 1461
        n3r  == n2r % 1461
        n1   == n3r \div 365
        n    == n3r % 365
        year == n400 * 400 + 1 + n100 * 100 + n4 * 4 + n1
        leapyear == n1 = 3 /\ (n4 # 24 \/ n100 = 3)
        month0 == (n + 50) \div 32
        prec0  == DAYS_BEFORE_MONTH[month0]
                    + (IF month0 > 2 /\ leapyear THEN 1 ELSE 0)
        month  == IF prec0 > n THEN month0 - 1 ELSE month0
        prec   == IF prec0 > n
                  THEN prec0 - (DAYS_IN_MONTH[month]
                                 + (IF month = 2 /\ leapyear THEN 1 ELSE 0))
                  ELSE prec0
    IN  IF n1 = 4 \/ n100 = 4
        THEN <<year - 1, 12, 31>>
        ELSE <<year, month, n - prec + 1>>

\* date(y, m, d) + timedelta(days = k)
date_add(t, k) == ord2ymd(ymd2ord(t) + k)

-----------------------------------------------------------------------------
(* CMSDatasetV0.__gen_interval(year, month, day, window_size, step,        *)
(* next_week): a Python generator.  gen[nw] is the generator object made   *)
(* with next_week = nw; both are made from the same gen_args.              *)

\* gen_start_date with the next window begun one day early
gen_start_date_early(a, next_week) ==
    IF ~next_week
    THEN <<a.year, a.month, a.day>>
    ELSE date_add(<<a.year, a.month, a.day>>, a.window_size - 1)

\* lines 173-176: the first date of the sequence
gen_start_date(a, next_week) ==
    IF ~next_week
    THEN <<a.year, a.month, a.day>>
    ELSE date_add(<<a.year, a.month, a.day>>, a.window_size)

\* line 177
gen_end_date(a, next_week) == date_add(gen_start_date(a, next_week), a.window_size)

\* line 178: the loop test
gen_continues(g) == g.start_date # g.end_date

\* line 180
gen_advance(g, a) == date_add(g.start_date, a.step)

NewGen == [pc |-> "new", start_date |-> <<0, 0, 0>>, end_date |-> <<0, 0, 0>>,
           out |-> <<>>]

\* the parts of the state a specification does not use stay as they are here
NoLog == [listed |-> <<>>, opened |-> <<>>, failed |-> {}]

ExtIdle ==
    /\ args = [start |-> <<0, 0, 0>>, window_size |-> 0,
               multiprocess |-> FALSE, num_processes |-> 1]
    /\ fs = <<>>
    /\ pc = "idle"
    /\ err = ""
    /\ day_i = 0
    /\ tasks = <<>>
    /\ all_tasks = <<>>
    /\ launched_processes = <<>>
    /\ flushed = <<>>
    /\ data = <<>>
    /\ window_indexes = {}
    /\ next_window_indexes = {}
    /\ window = <<>>
    /\ next_window = <<>>
    /\ res_data = <<>>
    /\ task_data = <<>>
    /\ task_window_indexes = <<>>
    /\ task_next_window_indexes = <<>>
    /\ proc = <<>>
    /\ io_log = NoLog

AggIdle == agg_i = 0

SaveIdle ==
    /\ save_pc = "idle"
    /\ save_i = 0
    /\ sink = <<>>

DcIdle ==
    /\ dc_listing = [ok |-> TRUE, names |-> <<>>]
    /\ dc_out = [pc |-> "idle"]

EsIdle ==
    /\ es_sent = <<>>
    /\ es_index = <<>>

NoTable == [enabled |-> FALSE, ops |-> <<>>, features |-> {}]

StIdle == support_tables = NoTable

RmIdle ==
    /\ rm_days = <<>>
    /\ rm = [pc |-> "idle"]

AuxIdle == AggIdle /\ SaveIdle /\ DcIdle /\ EsIdle /\ RmIdle

GenIdle ==
    /\ gen_args = [year |-> 0, month |-> 0, day |-> 0, window_size |-> 0,
                   step |-> 1]
    /\ gen = [nw \in BOOLEAN |-> NewGen]

InitGen ==
    /\ \E s \in StartDates, w \in (0 - MaxNegWindow)..MaxWindow, st \in 1..MaxStep :
          gen_args = [year |-> s[1], month |-> s[2], day |-> s[3],
                      window_size |-> w, step |-> st]
    /\ gen = [nw \in BOOLEAN |-> NewGen]
    /\ ExtIdle
    /\ AuxIdle
    /\ StIdle

\* the first next(): lines 171-177 run up to the loop test
GenBegin(nw) ==
    /\ gen[nw].pc = "new"
    /\ gen' = [gen EXCEPT ![nw] =
                 [pc |-> "loop",
                  start_date |-> gen_start_date(gen_args, nw),
                  end_date |-> gen_end_date(gen_args, nw),
                  out |-> <<>>]]
    /\ UNCHANGED <<gen_args, extVars, auxVars>>

\* lines 178-180: the test holds, the date is yielded and then advanced
GenYield(nw) ==
    /\ gen[nw].pc = "loop"
    /\ gen_continues(gen[nw])
    /\ Len(gen[nw].out) < MaxYield
    /\ gen' = [gen EXCEPT ![nw].out = Append(@, gen[nw].start_date),
                          ![nw].start_date = gen_advance(gen[nw], gen_args)]
    /\ UNCHANGED <<gen_args, extVars, auxVars>>

\* line 178: the test fails, the generator is exhausted
GenStop(nw) ==
    /\ gen[nw].pc = "loop"
    /\ ~gen_continues(gen[nw])
    /\ gen' = [gen EXCEPT ![nw].pc = "done"]
    /\ UNCHANGED <<gen_args, extVars, auxVars>>

NextGen ==
    \/ \E nw \in BOOLEAN : GenBegin(nw)
    \/ \E nw \in BOOLEAN : GenYield(nw)
    \/ \E nw \in BOOLEAN : GenStop(nw)

SpecGen == InitGen /\ [][NextGen]_vars

-----------------------------------------------------------------------------
(* The world of extract: the days of the two windows, what the HTTPFS      *)
(* gateway lists for each day, and what each listed object holds.          *)

MaxExtractWindow == 1

MaxProc == 2

\* the early-stop threshold of the worker (10000 at generator.py line 56),
\* scaled to the size of the model's collections
Cap == 1

ExtractStart == <<2020, 2, 28>>

\* a raw record as the decoder yields it; valid and FileName are what the
\* CMSDataPopularityRaw wrapper makes of it
Rec(k, f, v) == [FileName |-> k, feature |-> f, valid |-> v]

\* the objects a listing may name, with the records DataFile decodes from
\* each; "d" is listed but cannot be opened
Content ==
    [name \in {"a", "b", "c", "d"} |->
        CASE name = "a" -> << Rec("f1", "x", TRUE), Rec("f2", "x", FALSE) >>
          [] name = "b" -> << Rec("f1", "y", TRUE), Rec("f2", "x", TRUE),
                              Rec("f3", "x", TRUE) >>
          [] name = "c" -> << >>
          [] name = "d" -> << >>]

Unopenable == {"d"}

\* the answers of liststatus for a day: an HTTP error, or the names listed
Listings == {"error", <<>>, <<"a", "b">>, <<"c", "d">>}

\* the arguments extract passes to __gen_interval (step is left at 1)
interval_args(a) ==
    [year |-> a.start[1], month |-> a.start[2], day |-> a.start[3],
     window_size |-> a.window_size, step |-> 1]

RECURSIVE gen_rest(_, _, _)
gen_rest(g, a, fuel) ==
    IF gen_continues(g) /\ fuel > 0
    THEN <<g.start_date>>
            \o gen_rest([g EXCEPT !.start_date = gen_advance(g, a)], a, fuel - 1)
    ELSE <<>>

\* every date __gen_interval yields, as a list
gen_interval(a, next_week) ==
    gen_rest([start_date |-> gen_start_date(a, next_week),
              end_date |-> gen_end_date(a, next_week)], a, MaxYield)

\* the days of the task-building loops, in the order they are listed: the
\* current window (full records), then the next window (only_indexes)
task_days(a) ==
    LET cur == gen_interval(interval_args(a), FALSE)
        nxt == gen_interval(interval_args(a), TRUE)
    IN  [i \in 1..Len(cur) |-> [date |-> cur[i], only_indexes |-> FALSE]]
        \o [i \in 1..Len(nxt) |-> [date |-> nxt[i], only_indexes |-> TRUE]]

Range(f) == {f[i] : i \in DOMAIN f}

\* the lists of at most n elements of S
SeqsUpTo(S, n) == UNION {[1..m -> S] : m \in 0..n}

-----------------------------------------------------------------------------
(* Sequential extraction: get_raw_data.                                    *)

\* get_raw_data(year, month, day, only_indexes).  Line 191 formats the
\* spinner text with full_path, a name bound neither in the function nor in
\* the module: the call raises NameError before get_data_collector is
\* called and before any record is read.
get_raw_data(date, only_indexes) ==
    [raised |-> TRUE, err |-> "NameError", data |-> <<>>, indexes |-> {}]

\* lines 276-288: the two list comprehensions over the windows
raw_windows(a) ==
    LET cur == gen_interval(interval_args(a), FALSE)
        nxt == gen_interval(interval_args(a), TRUE)
    IN  [window |-> [i \in 1..Len(cur) |-> get_raw_data(cur[i], FALSE)],
         next_window |-> [i \in 1..Len(nxt) |-> get_raw_data(nxt[i], TRUE)]]

-----------------------------------------------------------------------------
(* The merge and aggregation of lines 368-400.                             *)

RECURSIVE concat_data(_)
concat_data(results) ==
    IF results = <<>> THEN <<>>
    ELSE Head(results).data \o concat_data(Tail(results))

union_indexes(results) == UNION {results[i].indexes : i \in DOMAIN results}

\* CMSSimpleRecord(cur_data_pop): the record made of one raw record
simple_record(rec, in_next) ==
    [record_id |-> rec.FileName, next_window |-> in_next, merged |-> 1,
     feature |-> rec.feature]

\* CMSSimpleRecord.__iadd__: counters are summed, categorical fields are
\* taken from the later record
simple_record_add(old, new) ==
    [record_id |-> old.record_id, next_window |-> new.next_window,
     merged |-> old.merged + new.merged, feature |-> new.feature]

\* the same loop body with the membership test of line 391 left out
aggregate_one_appending(res, rec, nwi) ==
    IF ~rec.valid THEN res
    ELSE Append(res, simple_record(rec, rec.FileName \in nwi))

\* the same loop body assigning at line 394 where the code uses +=
aggregate_one_replacing(res, rec, nwi) ==
    IF ~rec.valid THEN res
    ELSE LET new == simple_record(rec, rec.FileName \in nwi)
         IN  IF \A i \in DOMAIN res : res[i].record_id # new.record_id
             THEN Append(res, new)
             ELSE [i \in DOMAIN res |->
                     IF res[i].record_id = new.record_id
                     THEN new ELSE res[i]]

\* the same loop body moving a merged entry to the end of the mapping
aggregate_one_moving(res, rec, nwi) ==
    IF ~rec.valid THEN res
    ELSE LET new == simple_record(rec, rec.FileName \in nwi)
         IN  IF \A i \in DOMAIN res : res[i].record_id # new.record_id
             THEN Append(res, new)
             ELSE LET old == CHOOSE i \in DOMAIN res :
                                 res[i].record_id = new.record_id
                  IN  Append(SelectSeq(res, LAMBDA r :
                                 r.record_id # new.record_id),
                             simple_record_add(res[old], new))

\* lines 386-394 for one record; res is the OrderedDict as the list of its
\* values in insertion order
aggregate_one(res, rec, nwi) ==
    IF ~rec.valid THEN res
    ELSE LET new == simple_record(rec, rec.FileName \in nwi)
         IN  IF \A i \in DOMAIN res : res[i].record_id # new.record_id
             THEN Append(res, new)
             ELSE [i \in DOMAIN res |->
                     IF res[i].record_id = new.record_id
                     THEN simple_record_add(res[i], new) ELSE res[i]]

RECURSIVE aggregate(_, _, _)
aggregate(res, records, nwi) ==
    IF records = <<>> THEN res
    ELSE aggregate(aggregate_one(res, Head(records), nwi), Tail(records), nwi)

-----------------------------------------------------------------------------
(* CMSDatasetV0.extract.                                                   *)

Init ==
    /\ \E w \in 0..MaxExtractWindow, mp \in BOOLEAN, np \in 1..MaxProc :
          args = [start |-> ExtractStart, window_size |-> w,
                  multiprocess |-> mp, num_processes |-> np]
    /\ gen_args = interval_args(args)
    /\ gen = [nw \in BOOLEAN |-> NewGen]
    /\ fs \in [{d.date : d \in Range(task_days(args))} -> Listings]
    /\ pc = "start"
    /\ err = ""
    /\ day_i = 1
    /\ tasks = <<>>
    /\ all_tasks = <<>>
    /\ launched_processes = <<>>
    /\ flushed = <<>>
    /\ data = <<>>
    /\ window_indexes = {}
    /\ next_window_indexes = {}
    /\ window = <<>>
    /\ next_window = <<>>
    /\ res_data = <<>>
    /\ task_data = <<>>
    /\ task_window_indexes = <<>>
    /\ task_next_window_indexes = <<>>
    /\ proc = <<>>
    /\ io_log = NoLog
    /\ AuxIdle
    /\ StIdle

\* extract leaves by an exception
Raise(e) ==
    /\ pc' = "raised"
    /\ err' = e

\* lines 275-288, multiprocess = False: every day of both windows goes
\* through get_raw_data; the first call that raises ends extract
ExtractSequential ==
    /\ pc = "start"
    /\ ~args.multiprocess
    /\ LET r == raw_windows(args)
           calls == r.window \o r.next_window
       IN  IF \E i \in DOMAIN calls : calls[i].raised
           THEN /\ Raise(calls[CHOOSE i \in DOMAIN calls :
                                  /\ calls[i].raised
                                  /\ \A j \in 1..(i - 1) : ~calls[j].raised].err)
                /\ UNCHANGED <<window, next_window>>
           ELSE /\ window' = r.window
                /\ next_window' = r.next_window
                /\ pc' = "merge"
                /\ err' = ""
    /\ UNCHANGED <<day_i, tasks, all_tasks, launched_processes, flushed, data,
                   window_indexes, next_window_indexes, res_data>>
    /\ UNCHANGED <<auxVars, io_log, genVars, worldVars, chanVars, proc>>

\* lines 368-414: merge the per-day results, aggregate, return
MergeResults ==
    /\ pc = "merge"
    /\ LET data1 == IF ~args.multiprocess
                    THEN data \o concat_data(window) ELSE data
           wi1   == IF ~args.multiprocess
                    THEN window_indexes \cup union_indexes(window)
                    ELSE window_indexes
           nwi1  == IF ~args.multiprocess
                    THEN next_window_indexes \cup union_indexes(next_window)
                    ELSE next_window_indexes
       IN  /\ data' = data1
           /\ window_indexes' = wi1
           /\ next_window_indexes' = nwi1
           /\ res_data' = aggregate(res_data, data1, nwi1)
    /\ pc' = "returned"
    /\ UNCHANGED <<err, day_i, tasks, all_tasks, launched_processes, flushed,
                   window, next_window>>
    /\ UNCHANGED <<auxVars, io_log, genVars, worldVars, chanVars, proc>>

\* lines 290-299, multiprocess = True: the generators and the queues are made
ParallelBegin ==
    /\ pc = "start"
    /\ args.multiprocess
    /\ pc' = "listing"
    /\ day_i' = 1
    /\ UNCHANGED <<err, tasks, all_tasks, launched_processes, flushed, data,
                   window_indexes, next_window_indexes, window, next_window,
                   res_data>>
    /\ UNCHANGED <<auxVars, io_log, genVars, worldVars, chanVars, proc>>

\* api.py 76-114, 149-190: HTTPFS.liststatus and HTTPFS.open make one GET
\* request each and raise Exception when the answer is not 200; the log
\* keeps every request made and the ones that were refused
liststatus_retried(log, date, listed) ==
    [log EXCEPT !.listed = IF listed = "error"
                           THEN Append(Append(@, date), date)
                           ELSE Append(@, date),
                !.failed = IF listed = "error"
                           THEN @ \cup {<<"liststatus", date>>}
                           ELSE @]

liststatus_logged(log, date, listed) ==
    [log EXCEPT !.listed = Append(@, date),
                !.failed = IF listed = "error"
                           THEN @ \cup {<<"liststatus", date>>}
                           ELSE @]

open_logged(log, id, name) ==
    [log EXCEPT !.opened = Append(@, id),
                !.failed = IF name \in Unopenable
                           THEN @ \cup {<<"open", id>>}
                           ELSE @]

\* lines 301-326: one day of the task-building loops.  liststatus raises on
\* an HTTP error (api.py lines 104-106); otherwise one task is appended per
\* listed object, bound to the index channel of its window
ListDay ==
    /\ pc = "listing"
    /\ day_i <= Len(task_days(args))
    /\ LET d == task_days(args)[day_i]
           listed == fs[d.date]
       IN  /\ io_log' = liststatus_logged(io_log, d.date, listed)
           /\ IF listed = "error"
              THEN /\ Raise("Exception")
                   /\ UNCHANGED <<tasks, day_i>>
              ELSE /\ tasks' = tasks \o
                         [j \in 1..Len(listed) |->
                             [date |-> d.date, name |-> listed[j],
                              only_indexes |-> d.only_indexes]]
                   /\ day_i' = day_i + 1
                   /\ UNCHANGED <<pc, err>>
    /\ UNCHANGED <<all_tasks, launched_processes, flushed, data,
                   window_indexes, next_window_indexes, window, next_window,
                   res_data>>
    /\ UNCHANGED <<auxVars, genVars, worldVars, chanVars, proc>>

\* line 328: both loops are over, the scheduling loop is entered
ListDone ==
    /\ pc = "listing"
    /\ day_i > Len(task_days(args))
    /\ all_tasks' = [i \in 1..Len(tasks) |-> i]
    /\ launched_processes' = <<>>
    /\ pc' = "loop"
    /\ UNCHANGED <<err, day_i, tasks, flushed, data, window_indexes,
                   next_window_indexes, window, next_window, res_data>>
    /\ UNCHANGED <<auxVars, io_log, genVars, worldVars, chanVars, proc>>

\* line 336: the test of the scheduling loop
loop_continues == Len(all_tasks) > 0 \/ Len(launched_processes) > 0

\* line 337: a task may be started
can_start_over_budget ==
    Len(launched_processes) <= args.num_processes /\ all_tasks # <<>>

can_start ==
    Len(launched_processes) < args.num_processes /\ all_tasks # <<>>

\* a CMSDatasetV0Process after add_data and start
\* the same constructor with only_indexes left at its default
NewProcess_without_flag(t, content) ==
    [pc |-> "iter", idx |-> 0, bound |-> FALSE, collector |-> content,
     only_indexes |-> FALSE, put_data |-> <<>>, put_indexes |-> <<>>]

NewProcess(t, content) ==
    [pc |-> "iter", idx |-> 0, bound |-> FALSE, collector |-> content,
     only_indexes |-> t.only_indexes, put_data |-> <<>>, put_indexes |-> <<>>]

\* lines 338-343: pop the first task, open its object, start its process.
\* open raises on an HTTP error (api.py lines 180-182)
StartTask ==
    /\ pc = "loop"
    /\ loop_continues
    /\ can_start
    /\ LET id == Head(all_tasks)
           t  == tasks[id]
       IN  /\ all_tasks' = Tail(all_tasks)
           /\ io_log' = open_logged(io_log, id, t.name)
           /\ IF t.name \in Unopenable
              THEN /\ Raise("Exception")
                   /\ UNCHANGED <<launched_processes, proc>>
              ELSE /\ proc' = proc @@ (id :> NewProcess(t, Content[t.name]))
                   /\ launched_processes' = Append(launched_processes, id)
                   /\ UNCHANGED <<pc, err>>
    /\ UNCHANGED <<day_i, tasks, flushed, data, window_indexes,
                   next_window_indexes, window, next_window, res_data>>
    /\ UNCHANGED <<auxVars, genVars, worldVars, chanVars>>

\* lines 344-345: the budget is used up or no task is left: flush_queue is
\* called on task_data
BeginFlush ==
    /\ pc = "loop"
    /\ loop_continues
    /\ ~can_start
    /\ launched_processes # <<>>
    /\ pc' = "flush_data"
    /\ flushed' = <<>>
    /\ UNCHANGED <<err, day_i, tasks, all_tasks, launched_processes, data,
                   window_indexes, next_window_indexes, window, next_window,
                   res_data>>
    /\ UNCHANGED <<auxVars, io_log, genVars, worldVars, chanVars, proc>>

\* line 336 fails: the loop is left for the blocking task_data.get() of line
\* 359.  This happens only when no task was made, so nothing is ever put on
\* task_data and the get never returns.
LoopExit ==
    /\ pc = "loop"
    /\ ~loop_continues
    /\ pc' = "get_results"
    /\ UNCHANGED <<err, day_i, tasks, all_tasks, launched_processes, flushed,
                   data, window_indexes, next_window_indexes, window,
                   next_window, res_data>>
    /\ UNCHANGED <<auxVars, io_log, genVars, worldVars, chanVars, proc>>

\* lines 332-333 on task_data: one item is moved to the list
FlushDataGet ==
    /\ pc = "flush_data"
    /\ task_data # <<>>
    /\ flushed' = Append(flushed, Head(task_data))
    /\ task_data' = Tail(task_data)
    /\ UNCHANGED <<pc, err, day_i, tasks, all_tasks, launched_processes, data,
                   window_indexes, next_window_indexes, window, next_window,
                   res_data>>
    /\ UNCHANGED <<auxVars, io_log, genVars, worldVars, task_window_indexes,
                   task_next_window_indexes, proc>>

\* lines 334 and 345: task_data reports empty, the list is added to data;
\* then flush_queue is called on task_window_indexes (line 346)
FlushDataDone ==
    /\ pc = "flush_data"
    /\ task_data = <<>>
    /\ data' = data \o flushed
    /\ flushed' = <<>>
    /\ pc' = "flush_window_indexes"
    /\ UNCHANGED <<err, day_i, tasks, all_tasks, launched_processes,
                   window_indexes, next_window_indexes, window, next_window,
                   res_data>>
    /\ UNCHANGED <<auxVars, io_log, genVars, worldVars, chanVars, proc>>

\* lines 332-333 on task_window_indexes
FlushWindowIndexesGet ==
    /\ pc = "flush_window_indexes"
    /\ task_window_indexes # <<>>
    /\ flushed' = Append(flushed, Head(task_window_indexes))
    /\ task_window_indexes' = Tail(task_window_indexes)
    /\ UNCHANGED <<pc, err, day_i, tasks, all_tasks, launched_processes, data,
                   window_indexes, next_window_indexes, window, next_window,
                   res_data>>
    /\ UNCHANGED <<auxVars, io_log, genVars, worldVars, task_data,
                   task_next_window_indexes, proc>>

\* line 346: `window_indexes += <list>` with window_indexes a set: set has
\* no += with a list, whatever the list holds, and TypeError is raised.  The
\* keys flush_queue took from the channel are lost with the list.
FlushWindowIndexesDone ==
    /\ pc = "flush_window_indexes"
    /\ task_window_indexes = <<>>
    /\ Raise("TypeError")
    /\ UNCHANGED <<day_i, tasks, all_tasks, launched_processes, flushed, data,
                   window_indexes, next_window_indexes, window, next_window,
                   res_data>>
    /\ UNCHANGED <<auxVars, io_log, genVars, worldVars, chanVars, proc>>

-----------------------------------------------------------------------------
(* CMSDatasetV0Process.run, one process per started task.                  *)

\* obj.dump(): the serialised record put on the data channel
dump(rec) == [dumped |-> rec]

\* line 56: the early stop, tested after a valid record was written
stops_early(idx) == idx > Cap

\* line 48: a block of the file that DataFile cannot decode: reading it
\* raises inside run, which nothing catches
Corrupt == Rec("?", "corrupt", FALSE)

raises_on_read(rec) == rec = Corrupt

\* line 48: the loop takes the next record of the collector, or ends.  At
\* the end line 67 formats idx, which is unbound when the collector yielded
\* nothing: the process then dies of UnboundLocalError
WorkerNext(i) ==
    /\ i \in DOMAIN proc
    /\ proc[i].pc = "iter"
    /\ LET p == proc[i]
       IN  IF p.idx < Len(p.collector)
           THEN LET rec == p.collector[p.idx + 1]
                IN  IF raises_on_read(rec)
                    THEN proc' = [proc EXCEPT ![i].pc = "failed"]
                    ELSE proc' = [proc EXCEPT
                        ![i].idx = p.idx + 1,
                        ![i].bound = TRUE,
                        ![i].pc = IF ~rec.valid THEN "iter"
                                  ELSE IF ~p.only_indexes THEN "put_data"
                                  ELSE "put_indexes"]
           ELSE proc' = [proc EXCEPT
                        ![i].pc = IF p.bound THEN "done" ELSE "failed"]
    /\ UNCHANGED <<auxVars, io_log, genVars, worldVars, ctlVars, chanVars>>

\* lines 53-54
WorkerPutData(i) ==
    /\ i \in DOMAIN proc
    /\ proc[i].pc = "put_data"
    /\ LET obj_str == dump(proc[i].collector[proc[i].idx])
       IN  /\ task_data' = Append(task_data, obj_str)
           /\ proc' = [proc EXCEPT ![i].pc = "put_indexes",
                                   ![i].put_data = Append(@, obj_str)]
    /\ UNCHANGED <<auxVars, io_log, genVars, worldVars, ctlVars,
                   task_window_indexes, task_next_window_indexes>>

\* lines 55-57: the key goes to the index channel the process was made with
WorkerPutIndexes(i) ==
    /\ i \in DOMAIN proc
    /\ proc[i].pc = "put_indexes"
    /\ LET key == proc[i].collector[proc[i].idx].FileName
       IN  /\ IF proc[i].only_indexes
              THEN /\ task_next_window_indexes' =
                          Append(task_next_window_indexes, key)
                   /\ UNCHANGED task_window_indexes
              ELSE /\ task_window_indexes' = Append(task_window_indexes, key)
                   /\ UNCHANGED task_next_window_indexes
           /\ proc' = [proc EXCEPT
                        ![i].pc = IF stops_early(proc[i].idx)
                                  THEN "done" ELSE "iter",
                        ![i].put_indexes = Append(@, key)]
    /\ UNCHANGED <<auxVars, io_log, genVars, worldVars, ctlVars, task_data>>

Next ==
    \/ ExtractSequential
    \/ MergeResults
    \/ ParallelBegin
    \/ ListDay
    \/ ListDone
    \/ StartTask
    \/ BeginFlush
    \/ LoopExit
    \/ FlushDataGet
    \/ FlushDataDone
    \/ FlushWindowIndexesGet
    \/ FlushWindowIndexesDone
    \/ \E i \in DOMAIN tasks : WorkerNext(i)
    \/ \E i \in DOMAIN tasks : WorkerPutData(i)
    \/ \E i \in DOMAIN tasks : WorkerPutIndexes(i)

Spec == Init /\ [][Next]_vars

-----------------------------------------------------------------------------
(* One CMSDatasetV0Process, lines 24-71, on a file of any mix of valid,    *)
(* invalid and undecodable records, from its start to its end.             *)

MaxCollector == 3

WorkerRecords == {Rec("f1", "x", TRUE), Rec("f2", "x", FALSE), Corrupt}

InitWorker ==
    /\ GenIdle
    /\ AuxIdle
    /\ StIdle
    /\ args = [start |-> ExtractStart, window_size |-> 1,
               multiprocess |-> TRUE, num_processes |-> 1]
    /\ fs = <<>>
    /\ pc = "loop"
    /\ err = ""
    /\ day_i = 0
    /\ \E oi \in BOOLEAN, content \in SeqsUpTo(WorkerRecords, MaxCollector) :
          LET t == [date |-> ExtractStart, name |-> "a", only_indexes |-> oi]
          IN  /\ tasks = <<t>>
              /\ proc = (1 :> NewProcess(t, content))
    /\ all_tasks = <<>>
    /\ launched_processes = <<1>>
    /\ flushed = <<>>
    /\ data = <<>>
    /\ window_indexes = {}
    /\ next_window_indexes = {}
    /\ window = <<>>
    /\ next_window = <<>>
    /\ res_data = <<>>
    /\ task_data = <<>>
    /\ task_window_indexes = <<>>
    /\ task_next_window_indexes = <<>>
    /\ io_log = NoLog

NextWorker ==
    \/ \E i \in DOMAIN tasks : WorkerNext(i)
    \/ \E i \in DOMAIN tasks : WorkerPutData(i)
    \/ \E i \in DOMAIN tasks : WorkerPutIndexes(i)

SpecWorker == InitWorker /\ [][NextWorker]_vars

-----------------------------------------------------------------------------
(* The merge of lines 368-381 on what the loop of get_raw_data, lines      *)
(* 196-218, makes of the file of each day of the two windows.              *)

\* lines 196-203 with the key added only when only_indexes is set
RECURSIVE raw_loop_keys_of_next_only(_, _)
raw_loop_keys_of_next_only(collector, only_indexes) ==
    IF collector = <<>>
    THEN [raised |-> FALSE, err |-> "", data |-> <<>>, indexes |-> {}]
    ELSE LET n    == Len(collector)
             rest == raw_loop_keys_of_next_only(SubSeq(collector, 1, n - 1),
                                                only_indexes)
             obj  == collector[n]
         IN  IF ~obj.valid THEN rest
             ELSE IF ~only_indexes
                  THEN [rest EXCEPT !.data = Append(@, obj)]
                  ELSE [rest EXCEPT !.indexes = @ \cup {obj.FileName}]

\* lines 196-203, 218: every valid record goes to tmp_data unless
\* only_indexes is set, and its FileName goes to tmp_indexes
RECURSIVE raw_loop(_, _)
raw_loop(collector, only_indexes) ==
    IF collector = <<>>
    THEN [raised |-> FALSE, err |-> "", data |-> <<>>, indexes |-> {}]
    ELSE LET n    == Len(collector)
             rest == raw_loop(SubSeq(collector, 1, n - 1), only_indexes)
             obj  == collector[n]
         IN  IF ~obj.valid THEN rest
             ELSE [rest EXCEPT
                     !.data = IF ~only_indexes THEN Append(@, obj) ELSE @,
                     !.indexes = @ \cup {obj.FileName}]

MergeRecords ==
    {Rec("f1", "x", TRUE), Rec("f1", "y", TRUE), Rec("f2", "x", TRUE),
     Rec("f3", "x", FALSE)}

InitMerge ==
    /\ GenIdle
    /\ AuxIdle
    /\ StIdle
    /\ args = [start |-> ExtractStart, window_size |-> 1,
               multiprocess |-> FALSE, num_processes |-> 1]
    /\ fs = <<>>
    /\ pc = "merge"
    /\ err = ""
    /\ day_i = 0
    /\ tasks = <<>>
    /\ all_tasks = <<>>
    /\ launched_processes = <<>>
    /\ flushed = <<>>
    /\ data = <<>>
    /\ window_indexes = {}
    /\ next_window_indexes = {}
    /\ \E cur, nxt \in SeqsUpTo(MergeRecords, MaxCollector) :
          /\ window = <<raw_loop(cur, FALSE)>>
          /\ next_window = <<raw_loop(nxt, TRUE)>>
    /\ res_data = <<>>
    /\ task_data = <<>>
    /\ task_window_indexes = <<>>
    /\ task_next_window_indexes = <<>>
    /\ proc = <<>>
    /\ io_log = NoLog

NextMerge == MergeResults

SpecMerge == InitMerge /\ [][NextMerge]_vars

-----------------------------------------------------------------------------
(* The aggregation loop of extract, lines 385-394, one record at a time,   *)
(* on the merged record list and the key sets the merge of lines 370-381   *)
(* hands it.  get_raw_data and the workers only pass on records that are   *)
(* valid, so the list holds valid records.                                 *)

MaxData == 3

AggKeys == {"f1", "f2"}

AggRecords == {Rec(k, f, TRUE) : k \in AggKeys, f \in {"x", "y"}}

\* lines 271-272, 368-385: the loop is about to start; a SupportTable was
\* made when extract_support_tables is set
AggStart ==
    /\ \E est \in BOOLEAN : support_tables = [NoTable EXCEPT !.enabled = est]
    /\ args = [start |-> ExtractStart, window_size |-> 1,
               multiprocess |-> FALSE, num_processes |-> 1]
    /\ fs = <<>>
    /\ pc = "aggregate"
    /\ err = ""
    /\ day_i = 0
    /\ tasks = <<>>
    /\ all_tasks = <<>>
    /\ launched_processes = <<>>
    /\ flushed = <<>>
    /\ data \in SeqsUpTo(AggRecords, MaxData)
    /\ window_indexes = {data[i].FileName : i \in DOMAIN data}
    /\ next_window_indexes \in SUBSET AggKeys
    /\ window = <<>>
    /\ next_window = <<>>
    /\ res_data = <<>>
    /\ task_data = <<>>
    /\ task_window_indexes = <<>>
    /\ task_next_window_indexes = <<>>
    /\ proc = <<>>
    /\ io_log = NoLog

InitAgg ==
    /\ GenIdle
    /\ AuxIdle
    /\ AggStart

\* SupportTable.insert: the value is registered under 'features' unless it
\* is there already
support_insert(st, value) ==
    [st EXCEPT !.ops = Append(@, "insert"), !.features = @ \cup {value}]

\* lines 395-398 placed under the test of line 391: only the records that
\* make a new entry are registered
register_features_of_new_keys(st, res, rec) ==
    IF st.enabled /\ rec.valid
          /\ \A i \in DOMAIN res : res[i].record_id # rec.FileName
    THEN support_insert(st, rec.feature)
    ELSE st

\* lines 395-398: the features of the record just aggregated are inserted
register_features(st, res, rec) ==
    IF st.enabled /\ rec.valid
    THEN support_insert(st, rec.feature)
    ELSE st

\* lines 402-409 with the two calls in the other order
table_finalize_indexing_first(st) ==
    IF st.enabled
    THEN [st EXCEPT !.ops = @ \o <<"gen_indexes", "reduce_categories">>]
    ELSE st

\* lines 402-409: reduce_categories on the 'process' values, then
\* gen_indexes
table_finalize(st) ==
    IF st.enabled
    THEN [st EXCEPT !.ops = @ \o <<"reduce_categories", "gen_indexes">>]
    ELSE st

\* lines 385-398: one pass of the loop over data
AggregateRecord ==
    /\ pc = "aggregate"
    /\ agg_i < Len(data)
    /\ res_data' = aggregate_one(res_data, data[agg_i + 1],
                                 next_window_indexes)
    /\ support_tables' = register_features(support_tables, res_data,
                                           data[agg_i + 1])
    /\ agg_i' = agg_i + 1
    /\ UNCHANGED <<pc, err, day_i, tasks, all_tasks, launched_processes,
                   flushed, data, window_indexes, next_window_indexes,
                   window, next_window>>
    /\ UNCHANGED <<saveVars, dcVars, esVars, rmVars, io_log, genVars,
                   worldVars, chanVars, proc>>

\* lines 400-414: the loop is over, the table is finalized, res_data is
\* returned
AggregateReturn ==
    /\ pc = "aggregate"
    /\ agg_i = Len(data)
    /\ pc' = "returned"
    /\ support_tables' = table_finalize(support_tables)
    /\ UNCHANGED <<err, day_i, tasks, all_tasks, launched_processes,
                   flushed, data, window_indexes, next_window_indexes,
                   window, next_window, res_data>>
    /\ UNCHANGED <<aggVars, saveVars, dcVars, esVars, rmVars, io_log,
                   genVars, worldVars, chanVars, proc>>

NextAgg ==
    \/ AggregateRecord
    \/ AggregateReturn

SpecAgg == InitAgg /\ [][NextAgg]_vars

-----------------------------------------------------------------------------
(* CMSDatasetV0.save, lines 430-491, from the point where its call of      *)
(* extract has ended.  The output file is what JSONDataFileWriter was      *)
(* given with append, in order; nothing in save takes an append back.      *)

\* the ways extract ends: an exception, or the mapping of lines 385-394
ExtractErrors == {"NameError", "TypeError", "Exception"}

\* lines 448-454, 'len': len(data), with the number of raw records instead
metadata_counting_raw(res) ==
    [kind |-> "metadata",
     len |-> IF res = <<>> THEN 0
             ELSE Len(res) - 1 + res[Len(res)].merged]

\* lines 448-454: the header; 'len' is the number of entries of the mapping
metadata(res) == [kind |-> "metadata", len |-> Len(res)]

\* CMSSimpleRecord.to_dict
to_dict(rec) ==
    [kind |-> "record", id |-> rec.record_id, next |-> rec.next_window,
     count |-> rec.merged, features |-> <<rec.feature>>]

InitSave ==
    /\ GenIdle
    /\ AggIdle /\ DcIdle /\ EsIdle /\ StIdle /\ RmIdle
    /\ args = [start |-> ExtractStart, window_size |-> 1,
               multiprocess |-> FALSE, num_processes |-> 1]
    /\ fs = <<>>
    /\ \/ /\ pc = "raised"
          /\ err \in ExtractErrors
          /\ res_data = <<>>
       \/ /\ pc = "returned"
          /\ err = ""
          /\ \E d \in SeqsUpTo(AggRecords, MaxData), nwi \in SUBSET AggKeys :
                res_data = aggregate(<<>>, d, nwi)
    /\ day_i = 0
    /\ tasks = <<>>
    /\ all_tasks = <<>>
    /\ launched_processes = <<>>
    /\ flushed = <<>>
    /\ data = <<>>
    /\ window_indexes = {}
    /\ next_window_indexes = {}
    /\ window = <<>>
    /\ next_window = <<>>
    /\ task_data = <<>>
    /\ task_window_indexes = <<>>
    /\ task_next_window_indexes = <<>>
    /\ proc = <<>>
    /\ io_log = NoLog
    /\ save_pc = "extract"
    /\ save_i = 0
    /\ sink = <<>>

SaveFrame ==
    UNCHANGED <<aggVars, dcVars, esVars, rmVars, genVars, extVars>>

\* line 451: support_tables.to_dict() goes into the header
table_to_dict(st) ==
    IF st.enabled THEN [st EXCEPT !.ops = Append(@, "to_dict")] ELSE st

\* line 471: 'features' in support_tables
has_features(st) == st.enabled /\ st.features # {}

\* lines 471-484: the sorted feature names are asked for, then the code of
\* the record's value for each of them
table_encode(st) ==
    IF has_features(st)
    THEN [st EXCEPT !.ops = @ \o <<"get_sorted_keys", "get_close_value">>]
    ELSE st

\* lines 431-436: the exception of extract leaves save
SaveExtractRaised ==
    /\ save_pc = "extract"
    /\ pc = "raised"
    /\ save_pc' = "raised"
    /\ UNCHANGED <<save_i, sink, stVars>>
    /\ SaveFrame

\* lines 444-459: the header is built and the output file is opened; opening
\* it can fail
SaveOpen ==
    /\ save_pc = "extract"
    /\ pc = "returned"
    /\ \E ok \in BOOLEAN : save_pc' = IF ok THEN "metadata" ELSE "raised"
    /\ support_tables' = table_to_dict(support_tables)
    /\ UNCHANGED <<save_i, sink>>
    /\ SaveFrame

\* line 462: out_file.append(metadata)
SaveWriteMetadata ==
    /\ save_pc = "metadata"
    /\ \E ok \in BOOLEAN :
          IF ok
          THEN /\ sink' = Append(sink, metadata(res_data))
               /\ save_pc' = "records"
          ELSE /\ save_pc' = "raised"
               /\ UNCHANGED sink
    /\ UNCHANGED <<save_i, stVars>>
    /\ SaveFrame

\* lines 469-487: one entry of data.values() is encoded and appended
SaveWriteRecord ==
    /\ save_pc = "records"
    /\ save_i < Len(res_data)
    /\ sink' = Append(sink, to_dict(res_data[save_i + 1]))
    /\ support_tables' = table_encode(support_tables)
    /\ save_i' = save_i + 1
    /\ UNCHANGED save_pc
    /\ SaveFrame

\* lines 471-487: get_close_value, add_tensor, to_dict or append raises; the
\* with statement of line 459 closes the file and the exception leaves save
SaveRecordFails ==
    /\ save_pc = "records"
    /\ save_i < Len(res_data)
    /\ save_pc' = "raised"
    /\ UNCHANGED <<save_i, sink, stVars>>
    /\ SaveFrame

\* lines 488-491: every entry is written, save returns
SaveReturn ==
    /\ save_pc = "records"
    /\ save_i = Len(res_data)
    /\ save_pc' = "returned"
    /\ UNCHANGED <<save_i, sink, stVars>>
    /\ SaveFrame

NextSave ==
    \/ SaveExtractRaised
    \/ SaveOpen
    \/ SaveWriteMetadata
    \/ SaveWriteRecord
    \/ SaveRecordFails
    \/ SaveReturn

SpecSave == InitSave /\ [][NextSave]_vars

\* save from the aggregation loop of its extract on, with and without
\* support tables
InitSaveRun ==
    /\ GenIdle
    /\ AggIdle /\ DcIdle /\ EsIdle /\ RmIdle
    /\ save_pc = "extract"
    /\ save_i = 0
    /\ sink = <<>>
    /\ AggStart

NextSaveRun ==
    \/ AggregateRecord
    \/ AggregateReturn
    \/ SaveOpen
    \/ SaveWriteMetadata
    \/ SaveWriteRecord
    \/ SaveRecordFails
    \/ SaveReturn

SpecSaveRun == InitSaveRun /\ [][NextSaveRun]_vars

-----------------------------------------------------------------------------
(* CMSDatasetV0.get_data_collector, lines 126-152, with an httpfs agent:   *)
(* the day is listed, every listed object is opened, and the name          *)
(* collector is bound to the DataFile of the object just opened.           *)

MaxListing == 3

ObjectNames == DOMAIN Content

InitCollector ==
    /\ GenIdle
    /\ ExtIdle
    /\ AggIdle /\ SaveIdle /\ EsIdle /\ StIdle /\ RmIdle
    /\ dc_listing \in
          {[ok |-> FALSE, names |-> <<>>]}
          \cup [ok : {TRUE}, names : SeqsUpTo(ObjectNames, MaxListing)]
    /\ dc_out = [pc |-> "liststatus", i |-> 0, bound |-> FALSE,
                 collector |-> <<>>, err |-> ""]

CollectorFrame ==
    UNCHANGED <<dc_listing, aggVars, saveVars, esVars, stVars, rmVars,
                genVars, extVars>>

\* lines 128-132: liststatus is called; a refused request raises Exception
CollectorListStatus ==
    /\ dc_out.pc = "liststatus"
    /\ dc_out' = IF ~dc_listing.ok
                 THEN [dc_out EXCEPT !.pc = "raised", !.err = "Exception"]
                 ELSE [dc_out EXCEPT !.pc = "open"]
    /\ CollectorFrame

\* lines 133-134: one pass of the loop: the object is opened and collector
\* is bound to its DataFile
CollectorOpen ==
    /\ dc_out.pc = "open"
    /\ dc_out.i < Len(dc_listing.names)
    /\ LET name == dc_listing.names[dc_out.i + 1]
       IN  dc_out' = IF name \in Unopenable
                     THEN [dc_out EXCEPT !.pc = "raised",
                                         !.err = "Exception",
                                         !.i = @ + 1]
                     ELSE [dc_out EXCEPT !.i = @ + 1, !.bound = TRUE,
                                         !.collector = Content[name]]
    /\ CollectorFrame

\* line 152: return collector; the name is unbound when the loop had no pass
CollectorReturn ==
    /\ dc_out.pc = "open"
    /\ dc_out.i = Len(dc_listing.names)
    /\ dc_out' = IF dc_out.bound
                 THEN [dc_out EXCEPT !.pc = "returned"]
                 ELSE [dc_out EXCEPT !.pc = "raised",
                                     !.err = "UnboundLocalError"]
    /\ CollectorFrame

NextCollector ==
    \/ CollectorListStatus
    \/ CollectorOpen
    \/ CollectorReturn

SpecCollector == InitCollector /\ [][NextCollector]_vars

-----------------------------------------------------------------------------
(* ElasticSearchHttp.put, api.py 296-332.  A document is a dict, an        *)
(* ordered list of key-value pairs; two dicts are equal when they hold the *)
(* same pairs.  The index keeps one body per id: a PUT of an id that is    *)
(* there replaces its body.                                                *)

MaxPuts == 2

MaxBulk == 2

Docs ==
    { <<<<"a", "1">>, <<"b", "2">>>>,
      <<<<"b", "2">>, <<"a", "1">>>>,
      <<<<"a", "1">>>> }

\* json.dumps of a dict: the pairs in the dict's own order
RECURSIVE dumps_items(_)
dumps_items(doc) ==
    IF doc = <<>> THEN <<>>
    ELSE <<Head(doc)[1], ":", Head(doc)[2]>>
         \o (IF Tail(doc) = <<>> THEN <<>> ELSE <<",">>)
         \o dumps_items(Tail(doc))

json_dumps(doc) == <<"{">> \o dumps_items(doc) \o <<"}">>

\* lines 290-294: the blake2s digest of the serialized text
gen_id(string) == <<"blake2s", string>>

\* lines 304-311 with the id lines taken in reverse order
bulk_body_reversed(list) ==
    LET all_objects == [i \in DOMAIN list |-> json_dumps(list[i])]
        all_object_ids ==
            [i \in DOMAIN list |->
                [index |-> gen_id(all_objects[Len(list) + 1 - i])]]
    IN  [i \in 1..(2 * Len(list)) |->
            IF i % 2 = 1 THEN all_object_ids[(i + 1) \div 2]
            ELSE all_objects[i \div 2]]

\* lines 304-311: the body of the bulk request, an id line before each
\* document
bulk_body(list) ==
    LET all_objects == [i \in DOMAIN list |-> json_dumps(list[i])]
        all_object_ids ==
            [i \in DOMAIN list |-> [index |-> gen_id(all_objects[i])]]
    IN  [i \in 1..(2 * Len(list)) |->
            IF i % 2 = 1 THEN all_object_ids[(i + 1) \div 2]
            ELSE all_objects[i \div 2]]

\* the index takes PUT <url><id> with a body
index_put(index, id, body) == (id :> body) @@ index

\* the index takes PUT <url>_bulk: every id line indexes the line after it
RECURSIVE index_bulk(_, _)
index_bulk(index, body) ==
    IF Len(body) < 2 THEN index
    ELSE index_bulk(index_put(index, body[1].index, body[2]),
                    SubSeq(body, 3, Len(body)))

InitES ==
    /\ GenIdle
    /\ ExtIdle
    /\ AggIdle /\ SaveIdle /\ DcIdle /\ StIdle /\ RmIdle
    /\ es_sent = <<>>
    /\ es_index = <<>>

ESFrame ==
    UNCHANGED <<aggVars, saveVars, dcVars, stVars, rmVars, genVars, extVars>>

\* lines 321-330: data is not a list
PutSingle(doc) ==
    /\ Len(es_sent) < MaxPuts
    /\ LET json_data == json_dumps(doc)
           id_data   == gen_id(json_data)
       IN  es_index' = index_put(es_index, id_data, json_data)
    /\ es_sent' = Append(es_sent, [bulk |-> FALSE, docs |-> <<doc>>])
    /\ ESFrame

\* lines 303-320: data is a list
PutBulk(list) ==
    /\ Len(es_sent) < MaxPuts
    /\ es_index' = index_bulk(es_index, bulk_body(list))
    /\ es_sent' = Append(es_sent, [bulk |-> TRUE, docs |-> list])
    /\ ESFrame

NextES ==
    \/ \E doc \in Docs : PutSingle(doc)
    \/ \E list \in SeqsUpTo(Docs, MaxBulk) : PutBulk(list)

SpecES == InitES /\ [][NextES]_vars

-----------------------------------------------------------------------------
(* CMSResourceManager.get, resource.py 76-104, with an httpfs agent: a     *)
(* generator that lists each day of the window, opens every listed object, *)
(* binds the name collector to the DataFile of the object just opened and  *)
(* yields collector once per day.                                          *)

MaxResourceWindow == 3

\* gen_window_dates(year, month, day, window_size): the days of the window
gen_window_dates(start, window_size) ==
    [i \in 1..window_size |-> date_add(start, i - 1)]

rm_dates == gen_window_dates(ExtractStart, Len(rm_days))

InitResource ==
    /\ GenIdle
    /\ ExtIdle
    /\ AggIdle /\ SaveIdle /\ DcIdle /\ EsIdle /\ StIdle
    /\ rm_days \in SeqsUpTo(Listings, MaxResourceWindow)
    /\ rm = [pc |-> "next_day", day |-> 0, i |-> 0, bound |-> FALSE,
             collector |-> <<>>, yielded |-> <<>>, err |-> ""]

ResourceFrame ==
    UNCHANGED <<rm_days, aggVars, saveVars, dcVars, esVars, stVars, genVars,
                extVars>>

\* line 77: the next day of the window, or the end of the generator
ResourceNextDay ==
    /\ rm.pc = "next_day"
    /\ rm' = IF rm.day < Len(rm_days)
             THEN [rm EXCEPT !.pc = "liststatus", !.day = @ + 1, !.i = 0]
             ELSE [rm EXCEPT !.pc = "stopped"]
    /\ ResourceFrame

\* lines 80-84: liststatus of the day; a refused request raises Exception
ResourceListStatus ==
    /\ rm.pc = "liststatus"
    /\ rm' = IF rm_days[rm.day] = "error"
             THEN [rm EXCEPT !.pc = "raised", !.err = "Exception"]
             ELSE [rm EXCEPT !.pc = "open"]
    /\ ResourceFrame

\* lines 85-86: one pass of the inner loop
ResourceOpen ==
    /\ rm.pc = "open"
    /\ rm.i < Len(rm_days[rm.day])
    /\ LET name == rm_days[rm.day][rm.i + 1]
       IN  rm' = IF name \in Unopenable
                 THEN [rm EXCEPT !.pc = "raised", !.err = "Exception",
                                 !.i = @ + 1]
                 ELSE [rm EXCEPT !.i = @ + 1, !.bound = TRUE,
                                 !.collector = [date |-> rm_dates[rm.day],
                                                name |-> name]]
    /\ ResourceFrame

\* line 104: yield collector, whatever the name is bound to; it is unbound
\* when no object was opened yet
ResourceYield ==
    /\ rm.pc = "open"
    /\ rm.i = Len(rm_days[rm.day])
    /\ rm' = IF rm.bound
             THEN [rm EXCEPT !.pc = "next_day",
                             !.yielded = Append(@,
                                 [date |-> rm_dates[rm.day],
                                  collector |-> rm.collector])]
             ELSE [rm EXCEPT !.pc = "raised", !.err = "UnboundLocalError"]
    /\ ResourceFrame

NextResource ==
    \/ ResourceNextDay
    \/ ResourceListStatus
    \/ ResourceOpen
    \/ ResourceYield

SpecResource == InitResource /\ [][NextResource]_vars

-----------------------------------------------------------------------------
(* The calendar, stated without ordinals: the day after a date.            *)

MonthLength(y, m) == IF m = 2 /\ is_leap(y) THEN 29 ELSE DAYS_IN_MONTH[m]

NextDay(t) ==
    IF t[3] < MonthLength(t[1], t[2]) THEN <<t[1], t[2], t[3] + 1>>
    ELSE IF t[2] < 12 THEN <<t[1], t[2] + 1, 1>>
    ELSE <<t[1] + 1, 1, 1>>

RECURSIVE DaysAfter(_, _)
DaysAfter(t, k) == IF k <= 0 THEN t ELSE DaysAfter(NextDay(t), k - 1)

Ceil(a, b) == (a + b - 1) \div b

StepsBy(out, k) ==
    \A i \in 1..(Len(out) - 1) : out[i + 1] = DaysAfter(out[i], k)

-----------------------------------------------------------------------------
(* Claims about the date generator (SpecGen).                              *)

\* C6: for window_size >= 1 and stride >= 1 the generator yields exactly
\* ceil(window_size/stride) triples and then stops, each triple exactly
\* stride calendar days after the previous one.
C6_YieldsCeilThenStops ==
    (gen_args.window_size >= 1) =>
        \A nw \in BOOLEAN :
            /\ Len(gen[nw].out) <= Ceil(gen_args.window_size, gen_args.step)
            /\ gen[nw].pc = "done" =>
                  Len(gen[nw].out) = Ceil(gen_args.window_size, gen_args.step)
            /\ StepsBy(gen[nw].out, gen_args.step)

\* C7: for window_size <= 0 the generator yields no triple.
C7_NonPositiveWindowIsEmpty ==
    (gen_args.window_size <= 0) => \A nw \in BOOLEAN : gen[nw].out = <<>>

\* C8: with stride 1 and window_size >= 1 the next-window sequence starts
\* exactly window_size days after the first date of the current-window
\* sequence, has the same length once both are exhausted, and shares no date
\* with the current-window sequence.
C8_NextWindowFollows ==
    (gen_args.window_size >= 1 /\ gen_args.step = 1) =>
        LET cur == gen[FALSE].out
            nxt == gen[TRUE].out
        IN  /\ (cur # <<>> /\ nxt # <<>>) =>
                  nxt[1] = DaysAfter(cur[1], gen_args.window_size)
            /\ (gen[FALSE].pc = "done" /\ gen[TRUE].pc = "done") =>
                  /\ Len(cur) = gen_args.window_size
                  /\ Len(nxt) = Len(cur)
            /\ \A i \in 1..Len(cur), j \in 1..Len(nxt) : cur[i] # nxt[j]

\* both windows generated with stride 1, the two of them spanning a month end
C8_Witness ==
    /\ gen_args.window_size >= 2
    /\ gen_args.step = 1
    /\ gen[FALSE].pc = "done"
    /\ gen[TRUE].pc = "done"
    /\ gen[FALSE].out[1][2] # gen[TRUE].out[Len(gen[TRUE].out)][2]

-----------------------------------------------------------------------------
(* What a run of extract is expected to produce, read off the world.       *)

\* the workers started and not yet finished
InFlight == {i \in DOMAIN proc : proc[i].pc \notin {"done", "failed"}}

\* extract can take no further step: it raised, it returned, or it waits
\* for ever on the empty task_data of line 359
Halted == pc \in {"raised", "returned", "get_results"}

\* the scheduling loop of lines 336-355 has been left, and not because a
\* resource failed
LoopLeft == pc = "get_results" \/ (pc = "raised" /\ err = "TypeError")

\* no listing and no open of this world fails
WorldOk ==
    \A d \in DOMAIN fs :
        /\ fs[d] # "error"
        /\ Range(fs[d]) \cap Unopenable = {}

BagOf(seq) ==
    [x \in Range(seq) |-> Cardinality({i \in DOMAIN seq : seq[i] = x})]

ValidRecords(collector) == SelectSeq(collector, LAMBDA r : r.valid)

ValidKeys(collector) == {r.FileName : r \in Range(ValidRecords(collector))}

\* the identity keys of the valid records of every object listed for the
\* days of one window
WorldKeys(only_indexes) ==
    UNION { ValidKeys(Content[n]) :
              n \in UNION { Range(fs[d.date]) :
                              d \in {x \in Range(task_days(args)) :
                                        x.only_indexes = only_indexes} } }

RECURSIVE run_from(_, _, _)
\* what CMSDatasetV0Process.run writes from record idx on (lines 48-57)
run_from(collector, only_indexes, idx) ==
    IF idx > Len(collector) THEN [data |-> <<>>, indexes |-> <<>>]
    ELSE LET rec  == collector[idx]
             rest == IF rec.valid /\ stops_early(idx)
                     THEN [data |-> <<>>, indexes |-> <<>>]
                     ELSE run_from(collector, only_indexes, idx + 1)
         IN  IF rec.valid
             THEN [data |-> (IF only_indexes THEN <<>> ELSE <<dump(rec)>>)
                               \o rest.data,
                   indexes |-> <<rec.FileName>> \o rest.indexes]
             ELSE rest

\* everything the workers of a task list write, task after task
RECURSIVE writes_of(_)
writes_of(ts) ==
    IF ts = <<>> THEN [data |-> <<>>, window |-> {}, next_window |-> {}]
    ELSE LET t == Head(ts)
             w == run_from(Content[t.name], t.only_indexes, 1)
             r == writes_of(Tail(ts))
         IN  [data |-> w.data \o r.data,
              window |-> (IF t.only_indexes THEN {} ELSE Range(w.indexes))
                            \cup r.window,
              next_window |-> (IF t.only_indexes THEN Range(w.indexes) ELSE {})
                            \cup r.next_window]

\* how sequential extraction ends on the arguments a
sequential_outcome(a) ==
    LET r == raw_windows(a)
        calls == r.window \o r.next_window
    IN  IF \E i \in DOMAIN calls : calls[i].raised
        THEN [returned |-> FALSE, data |-> <<>>, window_indexes |-> {},
              next_window_indexes |-> {}]
        ELSE [returned |-> TRUE, data |-> concat_data(r.window),
              window_indexes |-> union_indexes(r.window),
              next_window_indexes |-> union_indexes(r.next_window)]

-----------------------------------------------------------------------------
(* Claims about extract (Spec).                                            *)

\* C1: the parallel scheduling loop exits, and it exits in a state where the
\* pending task list is empty and no worker is in flight.
C1_LoopExitsDrained ==
    (args.multiprocess /\ LoopLeft) => (all_tasks = <<>> /\ InFlight = {})

\* C2: by the end of the parallel run each of the N tasks has been dequeued,
\* bound to a worker and started exactly once: none is started twice and
\* none is left unstarted.
C2_EveryTaskStartedOnce ==
    /\ \A t \in DOMAIN tasks :
          Cardinality({j \in DOMAIN launched_processes :
                          launched_processes[j] = t}) <= 1
    /\ (args.multiprocess /\ LoopLeft) =>
          \A t \in DOMAIN tasks :
              /\ t \in DOMAIN proc
              /\ \E j \in DOMAIN launched_processes : launched_processes[j] = t

\* C3: in every reachable state of the parallel run the number of workers
\* started and not yet finished is at most num_processes.
C3_InFlightWithinBudget == Cardinality(InFlight) <= args.num_processes

\* the whole budget of two or more workers is in flight and tasks are pending
C3_Witness ==
    /\ args.num_processes >= 2
    /\ Cardinality(InFlight) = args.num_processes
    /\ all_tasks # <<>>

\* C4: on the same days and the same listed objects, extract with
\* multiprocess=True and with multiprocess=False end with the same
\* current-window key set, next-window key set and aggregated records.
C4_ParallelEqualsSequential ==
    (args.multiprocess /\ Halted /\ WorldOk) =>
        LET s == sequential_outcome(args)
        IN  /\ pc = "returned"
            /\ s.returned
            /\ window_indexes = s.window_indexes
            /\ next_window_indexes = s.next_window_indexes
            /\ Range(res_data) =
                  Range(aggregate(<<>>, s.data, s.next_window_indexes))

\* C5: for a fixed task list and fixed worker outputs, every interleaving of
\* worker writes and every order of completion ends the parallel run with
\* the same key sets and the same multiset of merged records: the ones made
\* of everything the workers of the task list write.
C5_InterleavingIndependent ==
    (args.multiprocess /\ LoopLeft) =>
        LET w == writes_of(tasks)
        IN  /\ BagOf(data) = BagOf(w.data)
            /\ window_indexes = w.window
            /\ next_window_indexes = w.next_window

\* C9: extraction never outputs an invalid record, and the returned (or
\* channel-written) key set is the set of identity keys of all valid records
\* of the collection, with only_indexes true or false; with only_indexes
\* true the record output is empty.
C9_KeysOfAllValidRecords ==
    /\ \A i \in DOMAIN proc :
          /\ \A j \in DOMAIN proc[i].put_data : proc[i].put_data[j].dumped.valid
          /\ proc[i].only_indexes => proc[i].put_data = <<>>
          /\ proc[i].pc \in {"done", "failed"} =>
                /\ Range(proc[i].put_indexes) = ValidKeys(proc[i].collector)
                /\ ~proc[i].only_indexes =>
                      proc[i].put_data =
                          [j \in DOMAIN ValidRecords(proc[i].collector) |->
                              dump(ValidRecords(proc[i].collector)[j])]
    /\ (~args.multiprocess /\ Halted) =>
          \A i \in DOMAIN raw_windows(args).window :
              ~raw_windows(args).window[i].raised

-----------------------------------------------------------------------------
(* Claims about the aggregation loop (SpecAgg).                            *)

Processed == SubSeq(data, 1, agg_i)

KeysOf(records) == {records[i].FileName : i \in DOMAIN records}

Occurrences(records, k) ==
    Cardinality({i \in DOMAIN records : records[i].FileName = k})

\* the keys of a list in the order of their first occurrence
RECURSIVE FirstSeen(_)
FirstSeen(records) ==
    IF records = <<>> THEN <<>>
    ELSE LET before == FirstSeen(SubSeq(records, 1, Len(records) - 1))
             k      == records[Len(records)].FileName
         IN  IF \E i \in DOMAIN before : before[i] = k
             THEN before ELSE Append(before, k)

\* the last record of a key in a list
LastOf(records, k) ==
    LET last == CHOOSE i \in DOMAIN records :
                    /\ records[i].FileName = k
                    /\ \A j \in DOMAIN records :
                           records[j].FileName = k => j <= i
    IN  records[last]

Reorderings(records) ==
    {[i \in DOMAIN records |-> records[p[i]]] :
        p \in {q \in [DOMAIN records -> DOMAIN records] :
                  \A i, j \in DOMAIN records : q[i] = q[j] => i = j}}

\* C11: after any prefix of the merged record list has gone through the
\* loop, the mapping holds exactly one WindowRecord for each distinct key
\* among the records gone through: a record whose key is already there is
\* merged into its entry and never adds a second one.
C11_OneRecordPerKey ==
    pc \in {"aggregate", "returned"} =>
        /\ {res_data[i].record_id : i \in DOMAIN res_data} = KeysOf(Processed)
        /\ Len(res_data) = Cardinality(KeysOf(Processed))
        /\ \A i, j \in DOMAIN res_data :
               res_data[i].record_id = res_data[j].record_id => i = j

\* two keys are in the mapping and a record was merged into an entry
C11_Witness ==
    /\ pc = "aggregate"
    /\ Len(res_data) = 2
    /\ agg_i = 3

C13_FirstSeenOrder ==
    pc \in {"aggregate", "returned"} =>
        [i \in DOMAIN res_data |-> res_data[i].record_id]
            = FirstSeen(Processed)

\* the first key got a second record after another key was inserted
C13_Witness ==
    /\ pc = "returned"
    /\ Len(data) = 3
    /\ data[1].FileName = data[3].FileName
    /\ data[1].FileName # data[2].FileName

-----------------------------------------------------------------------------
(* Claims about save (SpecSave).                                           *)

C16_HeaderThenRecordsInOrder ==
    save_pc = "returned" =>
        /\ Len(sink) = 1 + Len(res_data)
        /\ sink[1].kind = "metadata"
        /\ sink[1].len = Len(sink) - 1
        /\ \A i \in DOMAIN res_data :
               /\ sink[i + 1].kind = "record"
               /\ sink[i + 1] = to_dict(res_data[i])
               /\ sink[i + 1].id = res_data[i].record_id

\* a save of two entries, one of them merged from two records, returned
C16_Witness ==
    /\ save_pc = "returned"
    /\ Len(res_data) = 2
    /\ Len(sink) = 3
    /\ \E i \in DOMAIN res_data : res_data[i].merged = 2

-----------------------------------------------------------------------------
(* Claims about the requests extract makes (Spec).                         *)

NoRepeat(seq) == \A i, j \in DOMAIN seq : seq[i] = seq[j] => i = j

\* C15: when listing a day or opening an object fails, extract raises to
\* its caller and returns no result, and the refused request is the last one
\* made: no day is listed twice and no object is opened twice in a run.
C15_FailureRaisesOnce ==
    /\ NoRepeat(io_log.listed)
    /\ NoRepeat(io_log.opened)
    /\ io_log.failed # {} =>
          /\ pc = "raised"
          /\ err = "Exception"
          /\ res_data = <<>>
          /\ Cardinality(io_log.failed) = 1
          /\ \A f \in io_log.failed :
                IF f[1] = "liststatus"
                THEN /\ io_log.listed[Len(io_log.listed)] = f[2]
                     /\ io_log.opened = <<>>
                ELSE io_log.opened[Len(io_log.opened)] = f[2]

\* an object could not be opened after another one was opened and started
C15_Witness ==
    /\ \E id \in DOMAIN tasks : <<"open", id>> \in io_log.failed
    /\ Len(io_log.opened) = 2
    /\ pc = "raised"

\* a day could not be listed after another day was listed
C15_WitnessListing ==
    /\ \E f \in io_log.failed : f[1] = "liststatus"
    /\ Len(io_log.listed) = 2
    /\ pc = "raised"

-----------------------------------------------------------------------------
(* Claims about get_data_collector (SpecCollector).                        *)

\* the records of every object of a listing, in the listing's order
RECURSIVE AllContent(_)
AllContent(listing) ==
    IF listing = <<>> THEN <<>>
    ELSE Content[Head(listing)] \o AllContent(Tail(listing))

\* C17: for a day whose listing holds k >= 0 objects that can all be
\* opened, the call ends without an error and the collector it hands to the
\* extraction holds the records of all k objects, so all of them contribute
\* to the day's records and key set; k = 0 contributes nothing and does not
\* fail.
C17_AllObjectsContribute ==
    (/\ dc_out.pc \in {"returned", "raised"}
     /\ dc_listing.ok
     /\ \A i \in DOMAIN dc_listing.names :
           dc_listing.names[i] \notin Unopenable) =>
        /\ dc_out.pc = "returned"
        /\ ValidRecords(dc_out.collector)
               = ValidRecords(AllContent(dc_listing.names))
        /\ ValidKeys(dc_out.collector)
               = ValidKeys(AllContent(dc_listing.names))

-----------------------------------------------------------------------------
(* Claims about ElasticSearchHttp.put (SpecES).                            *)

Published ==
    UNION {Range(es_sent[i].docs) : i \in DOMAIN es_sent}

\* a dict as Python compares it: the pairs it holds
PairsOf(doc) == Range(doc)

\* C18 as stated: publishing a document again, by single put or in a bulk,
\* leaves one document for it in the index, equal documents always getting
\* the same id: the index holds one document per distinct document sent.
C18_EqualDocumentsOneDocument ==
    Cardinality(DOMAIN es_index)
        = Cardinality({PairsOf(doc) : doc \in Published})

\* C18, amended: the id is the digest of the serialized text, so documents
\* with the same serialization (same pairs in the same order) get the same
\* id and are held once however they were published, and every id in the
\* index, one of a bulk body included, holds the text it was computed from.
C18_SameSerializationOneDocument ==
    /\ Cardinality(DOMAIN es_index)
          = Cardinality({json_dumps(doc) : doc \in Published})
    /\ \A id \in DOMAIN es_index : id = gen_id(es_index[id])
    /\ \A doc \in Published :
          /\ gen_id(json_dumps(doc)) \in DOMAIN es_index
          /\ es_index[gen_id(json_dumps(doc))] = json_dumps(doc)

\* one document was published by a single put and again in a bulk of two
\* different documents
C18_Witness ==
    \E i, j \in DOMAIN es_sent :
        /\ ~es_sent[i].bulk
        /\ es_sent[j].bulk
        /\ Len(es_sent[j].docs) = 2
        /\ es_sent[j].docs[1] # es_sent[j].docs[2]
        /\ es_sent[i].docs[1] \in Range(es_sent[j].docs)
        /\ Cardinality(DOMAIN es_index) = 2

-----------------------------------------------------------------------------
(* Claims about the drain of the channels (Spec).                          *)

\* what the started workers have put on the channels so far
RECURSIVE PutData(_)
PutData(ids) ==
    IF ids = <<>> THEN <<>>
    ELSE proc[Head(ids)].put_data \o PutData(Tail(ids))

PutKeys(only_indexes) ==
    UNION {Range(proc[i].put_indexes) :
              i \in {j \in DOMAIN proc : proc[j].only_indexes = only_indexes}}

\* C19: when the parallel run is over and its workers have finished, every
\* record and key a worker put on a channel has been moved once into data,
\* window_indexes or next_window_indexes, the three channels are empty, and
\* the controller is not blocked reading an empty channel.
C19_AllWritesDrainedOnce ==
    (args.multiprocess /\ LoopLeft /\ InFlight = {}) =>
        /\ task_data = <<>>
        /\ task_window_indexes = <<>>
        /\ task_next_window_indexes = <<>>
        /\ BagOf(data) = BagOf(PutData(launched_processes))
        /\ window_indexes = PutKeys(FALSE)
        /\ next_window_indexes = PutKeys(TRUE)
        /\ pc # "get_results"

\* C20: the channels are drained after the workers of the generation have
\* completed, not before: while the controller drains, no worker is in
\* flight.
C20_DrainAfterGenerationCompletes ==
    pc \in {"flush_data", "flush_window_indexes"} => InFlight = {}

-----------------------------------------------------------------------------
(* Claims about the generations and the workers' writes (Spec).            *)

\* C21: scheduling goes by generations: when the workers of a full
\* generation have all finished and tasks are still pending, the controller
\* is still scheduling, so that the next generation of up to num_processes
\* tasks is admitted.
C21_NextGenerationAdmitted ==
    (/\ args.multiprocess
     /\ all_tasks # <<>>
     /\ Len(launched_processes) >= args.num_processes
     /\ InFlight = {}) =>
        pc \in {"loop", "flush_data", "flush_window_indexes"}

IsPrefix(s, t) == Len(s) <= Len(t) /\ SubSeq(t, 1, Len(s)) = s

WorkerStep == proc' # proc /\ DOMAIN proc' = DOMAIN proc

\* C22: a step of a worker changes only the channels of its task: a
\* current-window worker appends to the data channel and to the
\* current-window index channel, a next-window worker appends to the
\* next-window index channel and never touches the data channel; no worker
\* step changes data, window_indexes or next_window_indexes, and a step that
\* takes an item off a channel is a step of the controller.
C22_WorkerFrame ==
    [][/\ WorkerStep =>
            /\ UNCHANGED ctlVars
            /\ \A i \in DOMAIN proc :
                  proc'[i] # proc[i] =>
                     IF tasks[i].only_indexes
                     THEN /\ UNCHANGED <<task_data, task_window_indexes>>
                          /\ IsPrefix(task_next_window_indexes,
                                      task_next_window_indexes')
                     ELSE /\ UNCHANGED task_next_window_indexes
                          /\ IsPrefix(task_data, task_data')
                          /\ IsPrefix(task_window_indexes,
                                      task_window_indexes')
       /\ (\/ ~IsPrefix(task_data, task_data')
           \/ ~IsPrefix(task_window_indexes, task_window_indexes')
           \/ ~IsPrefix(task_next_window_indexes,
                        task_next_window_indexes')) => UNCHANGED proc
      ]_vars

\* a next-window worker has put a key on its channel while a current-window
\* record sits on no channel
C22_Witness ==
    /\ \E i \in DOMAIN proc :
          /\ tasks[i].only_indexes
          /\ proc[i].put_indexes # <<>>
    /\ task_next_window_indexes # <<>>
    /\ task_data = <<>>

-----------------------------------------------------------------------------
(* Claims about one worker (SpecWorker).                                   *)

\* C23: a worker examines at most cap records of its file, whatever the mix
\* of valid and invalid records: it reads no record after the cap-th.
C23_ExaminesAtMostCap == \A i \in DOMAIN proc : proc[i].idx <= Cap

\* C24: a task whose worker failed part-way contributes nothing: the worker
\* put no record and no key on a channel before it failed.
C24_FailedTaskContributesNothing ==
    \A i \in DOMAIN proc :
        proc[i].pc = "failed" =>
            /\ proc[i].put_data = <<>>
            /\ proc[i].put_indexes = <<>>
            /\ task_data = <<>>
            /\ task_window_indexes = <<>>
            /\ task_next_window_indexes = <<>>

-----------------------------------------------------------------------------
(* Claims about the support table (SpecSaveRun, SpecAgg).                  *)

OpsAt(names) ==
    {i \in DOMAIN support_tables.ops : support_tables.ops[i] \in names}

Queries == {"get_sorted_keys", "get_close_value"}

Updates == {"insert", "reduce_categories", "gen_indexes"}

\* C25: in a run of save with support tables, every insert comes before the
\* one reduce_categories call, which comes before the one gen_indexes call,
\* and every get_sorted_keys and get_close_value comes after gen_indexes;
\* no insert, reduce_categories or gen_indexes comes after a query.
C25_TableOperationsInOrder ==
    support_tables.enabled =>
        /\ Cardinality(OpsAt({"reduce_categories"})) <= 1
        /\ Cardinality(OpsAt({"gen_indexes"})) <= 1
        /\ \A i \in OpsAt({"insert"}), j \in OpsAt({"reduce_categories"}) :
               i < j
        /\ \A i \in OpsAt({"reduce_categories"}), j \in OpsAt({"gen_indexes"}) :
               i < j
        /\ \A q \in OpsAt(Queries) :
               /\ \E j \in OpsAt({"gen_indexes"}) : j < q
               /\ \E j \in OpsAt({"reduce_categories"}) : j < q
               /\ \A i \in OpsAt(Updates) : i < q
        /\ pc = "returned" =>
               /\ Cardinality(OpsAt({"reduce_categories"})) = 1
               /\ Cardinality(OpsAt({"gen_indexes"})) = 1

\* a save with support tables wrote two entries made of three records
C25_Witness ==
    /\ support_tables.enabled
    /\ save_pc = "returned"
    /\ Cardinality(OpsAt({"insert"})) = 3
    /\ Cardinality(OpsAt({"get_close_value"})) = 2

-----------------------------------------------------------------------------
(* Claims about the merge (SpecMerge).                                     *)

\* C27: when the aggregation starts, the key of every record of the merged
\* record list is in the current-window key set, so a record's key is in the
\* next-window key set exactly when it is in the intersection of the two
\* key sets, and the flag each entry got is membership in the intersection.
C27_RecordKeysInWindowKeys ==
    (pc = "returned" /\ window # <<>>) =>
        /\ \A i \in DOMAIN data : data[i].FileName \in window_indexes
        /\ \A i \in DOMAIN data :
               (data[i].FileName \in next_window_indexes)
                  <=> (data[i].FileName
                          \in window_indexes \cap next_window_indexes)
        /\ \A i \in DOMAIN res_data :
               res_data[i].next_window
                  <=> (res_data[i].record_id
                          \in window_indexes \cap next_window_indexes)

\* two records were merged, one whose key is in the next window and one
\* whose key is not
C27_Witness ==
    /\ pc = "returned"
    /\ window # <<>>
    /\ \E i, j \in DOMAIN data :
          /\ data[i].FileName \in next_window_indexes
          /\ data[j].FileName \notin next_window_indexes
    /\ \E i \in DOMAIN res_data : res_data[i].merged = 2

-----------------------------------------------------------------------------
(* Claims about CMSResourceManager.get (SpecResource).                     *)

\* C28: get yields one collector per day of the window, in calendar order,
\* and the collector yielded for a day is built from an object listed for
\* that day: a day whose listing is empty never yields the collector of an
\* earlier day.
C28_CollectorOfItsOwnDay ==
    rm.pc # "idle" =>
        /\ Len(rm.yielded) <= Len(rm_days)
        /\ \A k \in DOMAIN rm.yielded :
               /\ rm.yielded[k].date = DaysAfter(ExtractStart, k - 1)
               /\ rm.yielded[k].collector.date = rm.yielded[k].date
               /\ rm.yielded[k].collector.name \in Range(rm_days[k])
        /\ rm.pc = "stopped" => Len(rm.yielded) = Len(rm_days)

====
